---- MODULE Spec2Model ----
(***************************************************************************)
(* Model of compute_metrics.py: precision, recall, f1_score, roc_auc and   *)
(* detection_delay.  One behaviour is one call: Init draws the function    *)
(* and its arguments, the actions are the statements of that function.     *)
(*                                                                         *)
(* Floats are modelled as exact fractions <<num, den>>; <<0, 0>> is nan.   *)
(***************************************************************************)
EXTENDS Integers, Sequences, FiniteSets, TLC

VARIABLES func, y_true, y_pred, y_scores, sklearn_env,
          true_event_dates, detected_dates,
          pc, err, counted, tp, fp, fn, prec, rec,
          pos_scores, neg_scores, concordant, discordant,
          true_dates_parsed, detected_dates_parsed, delays, detected_count, idx,
          result, report,
          sample, result_dict, missing_fields, feature_name, signal_pos

vars == <<func, y_true, y_pred, y_scores, sklearn_env,
          true_event_dates, detected_dates,
          pc, err, counted, tp, fp, fn, prec, rec,
          pos_scores, neg_scores, concordant, discordant,
          true_dates_parsed, detected_dates_parsed, delays, detected_count, idx,
          result, report,
          sample, result_dict, missing_fields, feature_name, signal_pos>>

inputVars == <<func, y_true, y_pred, y_scores, sklearn_env,
               true_event_dates, detected_dates, sample, result_dict>>
validVars == <<missing_fields, feature_name, signal_pos>>
classVars == <<tp, fp, fn, prec, rec>>
aucVars   == <<pos_scores, neg_scores, concordant, discordant>>
delayVars == <<true_dates_parsed, detected_dates_parsed, delays,
               detected_count, idx, report>>

\* ------------------------------------------------------------------ bounds
MaxLen == 3
ScoreDen == 2
MaxEvents == 2
MaxDetections == 2
MaxSignals == 2
MaxDeviations == 2

\* ---------------------------------------------------------------- helpers
SeqsUpTo(S, n) == UNION {[1..k -> S] : k \in 0..n}

Min(a, b) == IF a <= b THEN a ELSE b

Labels == {0, 1}

\* a score is ScoreNum/ScoreDen; the range reaches below 0 and above 1
Scores == (0 - 1)..(ScoreDen + 1)

NoResult == <<>>
Zero == <<0, 1>>
Half == <<1, 2>>
NaN == <<0, 0>>

RatEq(a, b) == a[2] # 0 /\ b[2] # 0 /\ a[1] * b[2] = b[1] * a[2]
RatLe(a, b) == a[2] > 0 /\ b[2] > 0 /\ a[1] * b[2] <= b[1] * a[2]

\* the pairs that zip(a, b) yields: it stops at the shorter sequence
zip(a, b) == [i \in 1..Min(Len(a), Len(b)) |-> <<a[i], b[i]>>]

RECURSIVE sum(_)
sum(s) == IF s = <<>> THEN 0 ELSE Head(s) + sum(Tail(s))

Bool2Int(b) == IF b THEN 1 ELSE 0

\* ------------------------------------------------ precision / recall / f1
CountTP(t, p) ==
  sum([i \in DOMAIN zip(t, p) |->
         Bool2Int(zip(t, p)[i][1] = 1 /\ zip(t, p)[i][2] = 1)])

\* bug: counts the pairs (label 1, prediction 0) as false positives
CountFP_Mut(t, p) ==
  sum([i \in DOMAIN zip(t, p) |->
         Bool2Int(zip(t, p)[i][1] = 1 /\ zip(t, p)[i][2] = 0)])

CountFP(t, p) ==
  sum([i \in DOMAIN zip(t, p) |->
         Bool2Int(zip(t, p)[i][1] = 0 /\ zip(t, p)[i][2] = 1)])

\* bug: counts the pairs (label 0, prediction 1) as false negatives
CountFN_Mut(t, p) ==
  sum([i \in DOMAIN zip(t, p) |->
         Bool2Int(zip(t, p)[i][1] = 0 /\ zip(t, p)[i][2] = 1)])

CountFN(t, p) ==
  sum([i \in DOMAIN zip(t, p) |->
         Bool2Int(zip(t, p)[i][1] = 1 /\ zip(t, p)[i][2] = 0)])

\* bug: the ratio TP/FP instead of TP/(TP+FP)
PrecisionValue_Mut(a, b) == IF b = 0 THEN Zero ELSE <<a, b>>

PrecisionValue(a, b) == IF a + b = 0 THEN Zero ELSE <<a, a + b>>

\* bug: the missed fraction FN/(TP+FN) instead of the found one
RecallValue_Mut(a, c) == IF a + c = 0 THEN Zero ELSE <<c, a + c>>

RecallValue(a, c) == IF a + c = 0 THEN Zero ELSE <<a, a + c>>

\* the nested calls f1_score makes (their assert cannot fail after f1's own)
precision(t, p) == PrecisionValue(CountTP(t, p), CountFP(t, p))

recall(t, p) == RecallValue(CountTP(t, p), CountFN(t, p))

\* bug: the factor 2 is dropped
F1Value_Mut(p, r) ==
  IF p[1] * r[2] + r[1] * p[2] = 0
  THEN Zero
  ELSE <<(p[1] * r[1]) * (p[2] * r[2]),
         (p[2] * r[2]) * (p[1] * r[2] + r[1] * p[2])>>

\* 2 * (prec * rec) / (prec + rec) on fractions
F1Value(p, r) ==
  IF p[1] * r[2] + r[1] * p[2] = 0
  THEN Zero
  ELSE <<2 * (p[1] * r[1]) * (p[2] * r[2]),
         (p[2] * r[2]) * (p[1] * r[2] + r[1] * p[2])>>

\* bug: the length assertion is missing
LengthOk_Mut(a, b) == TRUE

LengthOk(a, b) == Len(a) = Len(b)

AssertLength ==
  /\ pc = "start"
  /\ func \in {"precision", "recall", "f1_score"}
  /\ IF LengthOk(y_true, y_pred)
     THEN pc' = "count" /\ err' = err
     ELSE pc' = "done" /\ err' = "LengthMismatch"
  /\ UNCHANGED <<inputVars, validVars, counted, classVars, aucVars, delayVars, result>>

PrecisionCount ==
  /\ pc = "count" /\ func = "precision"
  /\ tp' = CountTP(y_true, y_pred)
  /\ fp' = CountFP(y_true, y_pred)
  /\ counted' = TRUE
  /\ pc' = "return"
  /\ UNCHANGED <<inputVars, validVars, err, fn, prec, rec, aucVars, delayVars, result>>

PrecisionReturn ==
  /\ pc = "return" /\ func = "precision"
  /\ result' = PrecisionValue(tp, fp)
  /\ pc' = "done"
  /\ UNCHANGED <<inputVars, validVars, err, counted, classVars, aucVars, delayVars>>

RecallCount ==
  /\ pc = "count" /\ func = "recall"
  /\ tp' = CountTP(y_true, y_pred)
  /\ fn' = CountFN(y_true, y_pred)
  /\ counted' = TRUE
  /\ pc' = "return"
  /\ UNCHANGED <<inputVars, validVars, err, fp, prec, rec, aucVars, delayVars, result>>

RecallReturn ==
  /\ pc = "return" /\ func = "recall"
  /\ result' = RecallValue(tp, fn)
  /\ pc' = "done"
  /\ UNCHANGED <<inputVars, validVars, err, counted, classVars, aucVars, delayVars>>

F1CallPrecision ==
  /\ pc = "count" /\ func = "f1_score"
  /\ prec' = precision(y_true, y_pred)
  /\ counted' = TRUE
  /\ pc' = "recall"
  /\ UNCHANGED <<inputVars, validVars, err, tp, fp, fn, rec, aucVars, delayVars, result>>

F1CallRecall ==
  /\ pc = "recall" /\ func = "f1_score"
  /\ rec' = recall(y_true, y_pred)
  /\ pc' = "return"
  /\ UNCHANGED <<inputVars, validVars, err, counted, tp, fp, fn, prec, aucVars,
                 delayVars, result>>

F1Return ==
  /\ pc = "return" /\ func = "f1_score"
  /\ result' = F1Value(prec, rec)
  /\ pc' = "done"
  /\ UNCHANGED <<inputVars, validVars, err, counted, classVars, aucVars, delayVars>>

\* ---------------------------------------------------------------- roc_auc
SklearnEnvs == {"ImportError", "installed"}

\* bug: only the upper end of [0, 1] is asserted
ScoresInRange_Mut(s) == \A i \in DOMAIN s : s[i] <= ScoreDen

ScoresInRange(s) == \A i \in DOMAIN s : 0 <= s[i] /\ s[i] <= ScoreDen

\* [s for t, s in zip(y_true, y_scores) if t == label]
ScoresOf(t, s, label) ==
  LET z == SelectSeq(zip(t, s), LAMBDA e : e[1] = label)
  IN  [i \in DOMAIN z |-> z[i][2]]

\* bug: a pair counts when the fixed threshold 0.5 separates it
CountConcordant_Mut(pos, neg) ==
  sum([i \in DOMAIN pos |->
         sum([j \in DOMAIN neg |->
                Bool2Int(2 * pos[i] > ScoreDen /\ 2 * neg[j] <= ScoreDen)])])

CountConcordant(pos, neg) ==
  sum([i \in DOMAIN pos |->
         sum([j \in DOMAIN neg |-> Bool2Int(pos[i] > neg[j])])])

CountDiscordant(pos, neg) ==
  sum([i \in DOMAIN pos |->
         sum([j \in DOMAIN neg |-> Bool2Int(pos[i] < neg[j])])])

CountTied(pos, neg) ==
  sum([i \in DOMAIN pos |->
         sum([j \in DOMAIN neg |-> Bool2Int(pos[i] = neg[j])])])

FallbackValue(conc, total_pairs) ==
  IF total_pairs = 0 THEN Half ELSE <<conc, total_pairs>>

\* sklearn.metrics.roc_auc_score on two classes: the area under the ROC
\* curve, in which a tied (positive, negative) pair counts one half
RocAucScore(t, s) ==
  LET pos == ScoresOf(t, s, 1)
      neg == ScoresOf(t, s, 0)
  IN  <<2 * CountConcordant(pos, neg) + CountTied(pos, neg),
        2 * (Len(pos) * Len(neg))>>

\* what roc_auc_score does when y_true holds fewer than two classes: it
\* raises ValueError, or (newer releases, non-empty input) warns and
\* returns nan
RocAucScoreUndefined(t) ==
  IF Len(t) = 0 THEN {"ValueError"} ELSE {"ValueError", "nan"}

TwoClasses(t) == (\E i \in DOMAIN t : t[i] = 1) /\ (\E i \in DOMAIN t : t[i] = 0)

\* roc_auc as a whole: the set of outcomes <<error, value>> one call can have
roc_auc(t, s, env) ==
  IF ~LengthOk(t, s) THEN {<<"LengthMismatch", NoResult>>}
  ELSE IF ~ScoresInRange(s) THEN {<<"ScoreDomain", NoResult>>}
  ELSE IF env = "installed"
  THEN IF TwoClasses(t)
       THEN {<<"none", RocAucScore(t, s)>>}
       ELSE {IF outcome = "nan" THEN <<"none", NaN>> ELSE <<outcome, NoResult>> :
               outcome \in RocAucScoreUndefined(t)}
  ELSE LET pos == ScoresOf(t, s, 1)
           neg == ScoresOf(t, s, 0)
       IN  IF pos = <<>> \/ neg = <<>>
           THEN {<<"none", Half>>}
           ELSE {<<"none", FallbackValue(CountConcordant(pos, neg),
                                         Len(pos) * Len(neg))>>}

AucAssertLength ==
  /\ pc = "start" /\ func = "roc_auc"
  /\ IF LengthOk(y_true, y_scores)
     THEN pc' = "scores" /\ err' = err
     ELSE pc' = "done" /\ err' = "LengthMismatch"
  /\ UNCHANGED <<inputVars, validVars, counted, classVars, aucVars, delayVars, result>>

AucAssertScores ==
  /\ pc = "scores" /\ func = "roc_auc"
  /\ IF ScoresInRange(y_scores)
     THEN pc' = "import" /\ err' = err
     ELSE pc' = "done" /\ err' = "ScoreDomain"
  /\ UNCHANGED <<inputVars, validVars, counted, classVars, aucVars, delayVars, result>>

AucLibrary ==
  /\ pc = "import" /\ func = "roc_auc"
  /\ sklearn_env = "installed"
  /\ counted' = TRUE
  /\ pc' = "done"
  /\ IF TwoClasses(y_true)
     THEN result' = RocAucScore(y_true, y_scores) /\ err' = err
     ELSE \E outcome \in RocAucScoreUndefined(y_true) :
            IF outcome = "nan"
            THEN result' = NaN /\ err' = err
            ELSE result' = result /\ err' = outcome
  /\ UNCHANGED <<inputVars, validVars, classVars, aucVars, delayVars>>

AucPartition ==
  /\ pc = "import" /\ func = "roc_auc"
  /\ sklearn_env = "ImportError"
  /\ pos_scores' = ScoresOf(y_true, y_scores, 1)
  /\ neg_scores' = ScoresOf(y_true, y_scores, 0)
  /\ pc' = "degenerate"
  /\ UNCHANGED <<inputVars, validVars, err, counted, classVars, concordant, discordant,
                 delayVars, result>>

AucDegenerate ==
  /\ pc = "degenerate" /\ func = "roc_auc"
  /\ IF pos_scores = <<>> \/ neg_scores = <<>>
     THEN pc' = "done" /\ result' = Half
     ELSE pc' = "pairs" /\ result' = result
  /\ UNCHANGED <<inputVars, validVars, err, counted, classVars, aucVars, delayVars>>

AucCountPairs ==
  /\ pc = "pairs" /\ func = "roc_auc"
  /\ concordant' = CountConcordant(pos_scores, neg_scores)
  /\ discordant' = CountDiscordant(pos_scores, neg_scores)
  /\ counted' = TRUE
  /\ pc' = "return"
  /\ UNCHANGED <<inputVars, validVars, err, classVars, pos_scores, neg_scores,
                 delayVars, result>>

AucReturn ==
  /\ pc = "return" /\ func = "roc_auc"
  /\ result' = FallbackValue(concordant, Len(pos_scores) * Len(neg_scores))
  /\ pc' = "done"
  /\ UNCHANGED <<inputVars, validVars, err, counted, classVars, aucVars, delayVars>>

\* -------------------------------------------------------- detection_delay
\* A date argument is a str (its characters in text) or a datetime object
\* (in dt).  A datetime is [year, month, day, hour, minute, second, tzinfo];
\* tzinfo is <<>> for a naive datetime and <<utcoffset in minutes>> for an
\* aware one.
NoDatetime == [year |-> 1, month |-> 1, day |-> 1, hour |-> 0, minute |-> 0,
               second |-> 0, tzinfo |-> <<>>]

Str(chars) == [kind |-> "str", text |-> chars, dt |-> NoDatetime]

Datetime(y, m, d) ==
  [kind |-> "datetime", text |-> <<>>,
   dt |-> [year |-> y, month |-> m, day |-> d, hour |-> 0, minute |-> 0,
           second |-> 0, tzinfo |-> <<>>]]

DateInputs ==
  { Str(<<"2", "0", "2", "5", "-", "1", "2", "-", "2", "4">>),
    Str(<<"2", "0", "2", "5", "-", "1", "2", "-", "2", "5", "T", "1", "2", ":", "0", "0", ":", "0", "0">>),
    Str(<<"2", "0", "2", "5", "-", "1", "2", "-", "2", "7">>),
    Str(
        <<"2", "0", "2", "5", "-", "1", "2", "-", "2", "5", "T", "0", "0", ":", "0", "0", ":", "0", "0", "+", "0", "0", ":", "0", "0">>),
    Str(<<"2", "0", "2", "5", "-", "1", "3", "-", "0", "1">>),
    Datetime(2025, 12, 25) }

DigitOf(c) ==
  CASE c = "0" -> 0 [] c = "1" -> 1 [] c = "2" -> 2 [] c = "3" -> 3
    [] c = "4" -> 4 [] c = "5" -> 5 [] c = "6" -> 6 [] c = "7" -> 7
    [] c = "8" -> 8 [] c = "9" -> 9 [] OTHER -> 0 - 1

IsDigits(s, i, n) == \A k \in i..(i + n - 1) : DigitOf(s[k]) >= 0

RECURSIVE Number(_, _, _)
Number(s, i, n) ==
  IF n = 0 THEN 0 ELSE 10 * Number(s, i, n - 1) + DigitOf(s[i + n - 1])

IsLeap(y) == y % 4 = 0 /\ (y % 100 # 0 \/ y % 400 = 0)

DaysInMonth(y, m) ==
  IF m = 2 THEN (IF IsLeap(y) THEN 29 ELSE 28)
  ELSE IF m \in {4, 6, 9, 11} THEN 30 ELSE 31

DaysBeforeYear(y) ==
  (y - 1) * 365 + ((y - 1) \div 4) - ((y - 1) \div 100) + ((y - 1) \div 400)

RECURSIVE DaysBeforeMonth(_, _)
DaysBeforeMonth(y, m) ==
  IF m = 1 THEN 0 ELSE DaysBeforeMonth(y, m - 1) + DaysInMonth(y, m - 1)

toordinal(d) == DaysBeforeYear(d.year) + DaysBeforeMonth(d.year, d.month) + d.day

\* the layouts YYYY-MM-DD, YYYY-MM-DDTHH:MM:SS and YYYY-MM-DDTHH:MM:SS+HH:MM
WellFormed(s) ==
  /\ Len(s) \in {10, 19, 25}
  /\ IsDigits(s, 1, 4) /\ s[5] = "-" /\ IsDigits(s, 6, 2) /\ s[8] = "-"
  /\ IsDigits(s, 9, 2)
  /\ Number(s, 1, 4) >= 1
  /\ Number(s, 6, 2) \in 1..12
  /\ Number(s, 9, 2) \in 1..DaysInMonth(Number(s, 1, 4), Number(s, 6, 2))
  /\ Len(s) >= 19 =>
       /\ IsDigits(s, 12, 2) /\ s[14] = ":" /\ IsDigits(s, 15, 2)
       /\ s[17] = ":" /\ IsDigits(s, 18, 2)
       /\ Number(s, 12, 2) <= 23 /\ Number(s, 15, 2) <= 59
       /\ Number(s, 18, 2) <= 59
  /\ Len(s) = 25 =>
       /\ s[20] \in {"+", "-"} /\ IsDigits(s, 21, 2) /\ s[23] = ":"
       /\ IsDigits(s, 24, 2)
       /\ Number(s, 21, 2) <= 23 /\ Number(s, 24, 2) <= 59

\* datetime.fromisoformat on a well-formed string
fromisoformat(s) ==
  [year |-> Number(s, 1, 4), month |-> Number(s, 6, 2),
   day |-> Number(s, 9, 2),
   hour |-> IF Len(s) >= 19 THEN Number(s, 12, 2) ELSE 0,
   minute |-> IF Len(s) >= 19 THEN Number(s, 15, 2) ELSE 0,
   second |-> IF Len(s) >= 19 THEN Number(s, 18, 2) ELSE 0,
   tzinfo |-> IF Len(s) = 25
              THEN <<(IF s[20] = "-" THEN 0 - 1 ELSE 1)
                       * (60 * Number(s, 21, 2) + Number(s, 24, 2))>>
              ELSE <<>>]

\* parse_date raises ValueError exactly on a str that is not well formed
Parses(d) == d.kind = "datetime" \/ WellFormed(d.text)

parse_date(d) == IF d.kind = "datetime" THEN d.dt ELSE fromisoformat(d.text)

SecondsPerDay == 86400

\* x - y on two datetimes, in seconds; it is defined when both are naive or
\* both are aware
CanSubtract(x, y) == (x.tzinfo = <<>>) <=> (y.tzinfo = <<>>)

SecondsOfDay(d) == 3600 * d.hour + 60 * d.minute + d.second

UtcOffsetSeconds(d) == IF d.tzinfo = <<>> THEN 0 ELSE 60 * d.tzinfo[1]

total_seconds(x, y) ==
  (toordinal(x) - toordinal(y)) * SecondsPerDay
    + (SecondsOfDay(x) - SecondsOfDay(y))
    - (UtcOffsetSeconds(x) - UtcOffsetSeconds(y))

\* timedelta.days of x - y: the timedelta is normalised to 0 <= seconds < 86400
days(x, y) == total_seconds(x, y) \div SecondsPerDay

abs(n) == IF n < 0 THEN 0 - n ELSE n

\* bug: a later element replaces the best one on an equal key
RECURSIVE MinByKey_Mut(_, _, _, _)
MinByKey_Mut(seq, true_date, i, best) ==
  IF i > Len(seq) THEN best
  ELSE IF abs(total_seconds(seq[i], true_date))
            <= abs(total_seconds(seq[best], true_date))
       THEN MinByKey_Mut(seq, true_date, i + 1, i)
       ELSE MinByKey_Mut(seq, true_date, i + 1, best)

\* min(seq, key=...): the first element whose key is smallest
RECURSIVE MinByKey(_, _, _, _)
MinByKey(seq, true_date, i, best) ==
  IF i > Len(seq) THEN best
  ELSE IF abs(total_seconds(seq[i], true_date))
            < abs(total_seconds(seq[best], true_date))
       THEN MinByKey(seq, true_date, i + 1, i)
       ELSE MinByKey(seq, true_date, i + 1, best)

nearest_detection(seq, true_date) == seq[MinByKey(seq, true_date, 2, 1)]

RECURSIVE max(_)
max(s) == IF Len(s) = 1 THEN s[1]
          ELSE IF Head(s) >= max(Tail(s)) THEN Head(s) ELSE max(Tail(s))

RECURSIVE min(_)
min(s) == IF Len(s) = 1 THEN s[1]
          ELSE IF Head(s) <= min(Tail(s)) THEN Head(s) ELSE min(Tail(s))

\* bug: an empty event list is reported as fully detected
NoEventsReport_Mut == [mean_delay_days |-> Zero, max_delay_days |-> 0,
                       min_delay_days |-> 0, detection_rate |-> <<1, 1>>]

\* the report returned when there is no event
NoEventsReport == [mean_delay_days |-> Zero, max_delay_days |-> 0,
                   min_delay_days |-> 0, detection_rate |-> Zero]

\* the report returned when no delay was computed
NoDelaysReport == [mean_delay_days |-> Zero, max_delay_days |-> 0,
                   min_delay_days |-> 0, detection_rate |-> Zero]

\* bug: the rate counts the detections instead of the matched events
DelayReport_Mut(dl, cnt, n) ==
  [mean_delay_days |-> <<sum(dl), Len(dl)>>,
   max_delay_days |-> max(dl),
   min_delay_days |-> min(dl),
   detection_rate |-> <<Len(detected_dates_parsed), n>>]

\* bug: the mean is taken with integer division
DelayReport_MutMean(dl, cnt, n) ==
  [mean_delay_days |-> <<sum(dl) \div Len(dl), 1>>,
   max_delay_days |-> max(dl),
   min_delay_days |-> min(dl),
   detection_rate |-> <<cnt, n>>]

DelayReport(dl, cnt, n) ==
  [mean_delay_days |-> <<sum(dl), Len(dl)>>,
   max_delay_days |-> max(dl),
   min_delay_days |-> min(dl),
   detection_rate |-> <<cnt, n>>]

ParseTrueDates ==
  /\ pc = "start" /\ func = "detection_delay"
  /\ IF \A i \in DOMAIN true_event_dates : Parses(true_event_dates[i])
     THEN /\ true_dates_parsed' =
               [i \in DOMAIN true_event_dates |-> parse_date(true_event_dates[i])]
          /\ pc' = "parse_detected" /\ err' = err
     ELSE /\ true_dates_parsed' = true_dates_parsed
          /\ pc' = "done" /\ err' = "ValueError"
  /\ UNCHANGED <<inputVars, validVars, counted, classVars, aucVars,
                 detected_dates_parsed, delays, detected_count, idx, report,
                 result>>

ParseDetectedDates ==
  /\ pc = "parse_detected" /\ func = "detection_delay"
  /\ IF \A i \in DOMAIN detected_dates : Parses(detected_dates[i])
     THEN /\ detected_dates_parsed' =
               [i \in DOMAIN detected_dates |-> parse_date(detected_dates[i])]
          /\ pc' = "check_events" /\ err' = err
     ELSE /\ detected_dates_parsed' = detected_dates_parsed
          /\ pc' = "done" /\ err' = "ValueError"
  /\ UNCHANGED <<inputVars, validVars, counted, classVars, aucVars, true_dates_parsed,
                 delays, detected_count, idx, report, result>>

CheckNoEvents ==
  /\ pc = "check_events" /\ func = "detection_delay"
  /\ IF true_dates_parsed = <<>>
     THEN pc' = "done" /\ report' = NoEventsReport
     ELSE pc' = "loop" /\ report' = report
  /\ UNCHANGED <<inputVars, validVars, err, counted, classVars, aucVars,
                 true_dates_parsed, detected_dates_parsed, delays,
                 detected_count, idx, result>>

\* bug: an event whose nearest detection is more than a day away is skipped
LoopBody_Mut ==
  /\ pc = "loop" /\ func = "detection_delay"
  /\ idx <= Len(true_dates_parsed)
  /\ LET true_date == true_dates_parsed[idx] IN
       IF detected_dates_parsed = <<>>
       THEN /\ idx' = idx + 1
            /\ UNCHANGED <<pc, err, delays, detected_count>>
       ELSE IF \A j \in DOMAIN detected_dates_parsed :
                 CanSubtract(detected_dates_parsed[j], true_date)
       THEN IF abs(total_seconds(
                     nearest_detection(detected_dates_parsed, true_date),
                     true_date)) > SecondsPerDay
            THEN /\ idx' = idx + 1
                 /\ UNCHANGED <<pc, err, delays, detected_count>>
            ELSE /\ delays' = Append(delays,
                      days(nearest_detection(detected_dates_parsed, true_date),
                           true_date))
                 /\ detected_count' = detected_count + 1
                 /\ idx' = idx + 1
                 /\ UNCHANGED <<pc, err>>
       ELSE /\ pc' = "done" /\ err' = "TypeError"
            /\ UNCHANGED <<delays, detected_count, idx>>
  /\ UNCHANGED <<inputVars, validVars, counted, classVars, aucVars, true_dates_parsed,
                 detected_dates_parsed, report, result>>

LoopBody ==
  /\ pc = "loop" /\ func = "detection_delay"
  /\ idx <= Len(true_dates_parsed)
  /\ LET true_date == true_dates_parsed[idx] IN
       IF detected_dates_parsed = <<>>
       THEN /\ idx' = idx + 1
            /\ UNCHANGED <<pc, err, delays, detected_count>>
       ELSE IF \A j \in DOMAIN detected_dates_parsed :
                 CanSubtract(detected_dates_parsed[j], true_date)
       THEN /\ delays' = Append(delays,
                 days(nearest_detection(detected_dates_parsed, true_date),
                      true_date))
            /\ detected_count' = detected_count + 1
            /\ idx' = idx + 1
            /\ UNCHANGED <<pc, err>>
       ELSE /\ pc' = "done" /\ err' = "TypeError"
            /\ UNCHANGED <<delays, detected_count, idx>>
  /\ UNCHANGED <<inputVars, validVars, counted, classVars, aucVars, true_dates_parsed,
                 detected_dates_parsed, report, result>>

LoopExit ==
  /\ pc = "loop" /\ func = "detection_delay"
  /\ idx > Len(true_dates_parsed)
  /\ pc' = "summary"
  /\ UNCHANGED <<inputVars, validVars, err, counted, classVars, aucVars, delayVars,
                 result>>

\* bug: the test for an empty delay list is missing, the mean divides by 0
ReturnReport_Mut ==
  /\ pc = "summary" /\ func = "detection_delay"
  /\ IF delays = <<>>
     THEN report' = report /\ err' = "ZeroDivisionError"
     ELSE /\ report' = DelayReport(delays, detected_count,
                                   Len(true_dates_parsed))
          /\ err' = err
  /\ pc' = "done"
  /\ UNCHANGED <<inputVars, validVars, counted, classVars, aucVars,
                 true_dates_parsed, detected_dates_parsed, delays,
                 detected_count, idx, result>>

ReturnReport ==
  /\ pc = "summary" /\ func = "detection_delay"
  /\ report' =
       IF delays = <<>>
       THEN NoDelaysReport
       ELSE DelayReport(delays, detected_count, Len(true_dates_parsed))
  /\ pc' = "done"
  /\ UNCHANGED <<inputVars, validVars, err, counted, classVars, aucVars,
                 true_dates_parsed, detected_dates_parsed, delays,
                 detected_count, idx, result>>

\* ------------------------------------------------- validate_output_schema
\* A Python value: its type, and its number, characters or list items.
IntV(n) == [type |-> "int", num |-> <<n, 1>>, text |-> <<>>, items |-> <<>>]

FloatV(r) == [type |-> "float", num |-> r, text |-> <<>>, items |-> <<>>]

BoolV(b) == [type |-> "bool", num |-> <<Bool2Int(b), 1>>, text |-> <<>>,
             items |-> <<>>]

StrV(chars) == [type |-> "str", num |-> Zero, text |-> chars, items |-> <<>>]

ListV(elems) == [type |-> "list", num |-> Zero, text |-> <<>>, items |-> elems]

\* isinstance(v, cls): bool is a subclass of int
IsInstance(v, cls) == v.type = cls \/ (cls = "int" /\ v.type = "bool")

IsNumeric(v) ==
  (IsInstance(v, "int") \/ IsInstance(v, "float")) /\ ~IsInstance(v, "bool")

LowerChar(c) ==
  CASE c = "A" -> "a" [] c = "B" -> "b" [] c = "C" -> "c" [] c = "D" -> "d"
    [] c = "E" -> "e" [] c = "F" -> "f" [] c = "G" -> "g" [] c = "H" -> "h"
    [] c = "I" -> "i" [] c = "J" -> "j" [] c = "K" -> "k" [] c = "L" -> "l"
    [] c = "M" -> "m" [] c = "N" -> "n" [] c = "O" -> "o" [] c = "P" -> "p"
    [] c = "Q" -> "q" [] c = "R" -> "r" [] c = "S" -> "s" [] c = "T" -> "t"
    [] c = "U" -> "u" [] c = "V" -> "v" [] c = "W" -> "w" [] c = "X" -> "x"
    [] c = "Y" -> "y" [] c = "Z" -> "z" [] OTHER -> c

lower(chars) == [i \in DOMAIN chars |-> LowerChar(chars[i])]

VALID_RISK_LEVELS == {<<"l", "o", "w">>, <<"m", "e", "d", "i", "u", "m">>, <<"h", "i", "g", "h">>}

required_fields ==
  {"risk_score", "risk_level", "evaluation_date", "contributing_signal_types"}

RiskScoreValues ==
  {IntV(1), FloatV(<<1, 2>>), FloatV(<<3, 2>>), FloatV(<<0 - 1, 2>>),
   FloatV(NaN), BoolV(TRUE), StrV(<<"1">>)}

RiskLevelValues ==
  {StrV(<<"l", "o", "w">>), StrV(<<"m", "e", "d", "i", "u", "m">>), StrV(<<"H", "I", "G", "H">>), StrV(<<"e", "x", "t", "r", "e", "m", "e">>), IntV(1)}

EvaluationDateValues ==
  {StrV(<<"2", "0", "2", "5", "-", "1", "2", "-", "2", "8">>),
   StrV(<<"2", "0", "2", "5", "-", "1", "2", "-", "2", "7", "T", "1", "4", ":", "3", "0", ":", "0", "0">>),
   StrV(<<"1", "2", "/", "2", "8", "/", "2", "0", "2", "5">>),
   IntV(2025)}

SignalValues == {StrV(<<"m", "i", "c", "r", "o", "s", "t", "r", "u", "c", "t", "u", "r", "e">>), StrV(<<>>), IntV(1)}

SignalTypesValues ==
  {ListV(l) : l \in SeqsUpTo(SignalValues, MaxSignals)} \cup {StrV(<<"m", "i", "c", "r", "o", "s", "t", "r", "u", "c", "t", "u", "r", "e">>)}

\* the dicts drawn as the argument: any of the four fields may be absent
OutputDicts ==
  {[f \in K |-> d[f]] :
     d \in [risk_score : RiskScoreValues, risk_level : RiskLevelValues,
            evaluation_date : EvaluationDateValues,
            contributing_signal_types : SignalTypesValues],
     K \in SUBSET required_fields}

RiskScoreInRange(v) == RatLe(<<0, 1>>, v.num) /\ RatLe(v.num, <<1, 1>>)

\* bug: the level is compared without lower-casing it
RiskLevelValid_Mut(v) == v.text \in VALID_RISK_LEVELS

RiskLevelValid(v) == lower(v.text) \in VALID_RISK_LEVELS

otherVars == <<counted, classVars, aucVars, delayVars, result>>

OutCheckMissing ==
  /\ pc = "start" /\ func = "validate_output_schema"
  /\ missing_fields' = required_fields \ DOMAIN result_dict
  /\ IF missing_fields' = {}
     THEN pc' = "risk_score" /\ err' = err
     ELSE pc' = "done" /\ err' = "Missing required fields"
  /\ UNCHANGED <<inputVars, otherVars, feature_name, signal_pos>>

OutCheckRiskScore ==
  /\ pc = "risk_score" /\ func = "validate_output_schema"
  /\ LET risk_score == result_dict["risk_score"] IN
       IF ~IsNumeric(risk_score)
       THEN pc' = "done" /\ err' = "risk_score must be numeric"
       ELSE IF ~RiskScoreInRange(risk_score)
       THEN pc' = "done" /\ err' = "risk_score must be in [0, 1]"
       ELSE pc' = "risk_level" /\ err' = err
  /\ UNCHANGED <<inputVars, otherVars, validVars>>

OutCheckRiskLevel ==
  /\ pc = "risk_level" /\ func = "validate_output_schema"
  /\ LET risk_level == result_dict["risk_level"] IN
       IF ~IsInstance(risk_level, "str")
       THEN pc' = "done" /\ err' = "risk_level must be a string"
       ELSE IF ~RiskLevelValid(risk_level)
       THEN pc' = "done" /\ err' = "risk_level must be one of"
       ELSE pc' = "evaluation_date" /\ err' = err
  /\ UNCHANGED <<inputVars, otherVars, validVars>>

OutCheckEvaluationDate ==
  /\ pc = "evaluation_date" /\ func = "validate_output_schema"
  /\ LET evaluation_date == result_dict["evaluation_date"] IN
       IF ~IsInstance(evaluation_date, "str")
       THEN pc' = "done" /\ err' = "evaluation_date must be a string"
       ELSE IF ~WellFormed(evaluation_date.text)
       THEN pc' = "done" /\ err' = "evaluation_date must be valid ISO 8601"
       ELSE pc' = "signal_types" /\ err' = err
  /\ UNCHANGED <<inputVars, otherVars, validVars>>

OutCheckSignalTypes ==
  /\ pc = "signal_types" /\ func = "validate_output_schema"
  /\ LET signal_types == result_dict["contributing_signal_types"] IN
       IF ~IsInstance(signal_types, "list")
       THEN pc' = "done" /\ err' = "contributing_signal_types must be a list"
       ELSE IF ~(Len(signal_types.items) > 0)
       THEN pc' = "done" /\ err' = "contributing_signal_types must contain"
       ELSE pc' = "signals" /\ err' = err
  /\ UNCHANGED <<inputVars, otherVars, validVars>>

OutCheckSignal ==
  /\ pc = "signals" /\ func = "validate_output_schema"
  /\ signal_pos <= Len(result_dict["contributing_signal_types"].items)
  /\ LET signal_type == result_dict["contributing_signal_types"].items[signal_pos]
     IN  IF ~IsInstance(signal_type, "str")
         THEN pc' = "done" /\ err' = "signal type must be a string"
                /\ signal_pos' = signal_pos
         ELSE IF ~(Len(signal_type.text) > 0)
         THEN pc' = "done" /\ err' = "signal types must be non-empty"
                /\ signal_pos' = signal_pos
         ELSE pc' = pc /\ err' = err /\ signal_pos' = signal_pos + 1
  /\ UNCHANGED <<inputVars, otherVars, missing_fields, feature_name>>

OutPassed ==
  /\ pc = "signals" /\ func = "validate_output_schema"
  /\ signal_pos > Len(result_dict["contributing_signal_types"].items)
  /\ pc' = "done"
  /\ UNCHANGED <<inputVars, err, otherVars, validVars>>

\* -------------------------------------------------- validate_input_schema
\* the items of REQUIRED_FEATURES, in the order the dict yields them
REQUIRED_FEATURES ==
  <<<<"reddit_sentiment_score", "float">>,
     <<"twitter_sentiment_score", "float">>,
     <<"stocktwits_sentiment_score", "float">>,
     <<"social_volume_normalized", "float">>,
     <<"open_price", "float">>,
     <<"high_price", "float">>,
     <<"low_price", "float">>,
     <<"close_price", "float">>,
     <<"volume", "int">>,
     <<"price_range", "float">>,
     <<"bid_ask_spread", "float">>,
     <<"trades_count", "int">>,
     <<"large_trade_indicator", "bool">>,
     <<"news_sentiment_score", "float">>,
     <<"news_volume", "int">>,
     <<"day_of_week", "int">>,
     <<"is_trading_day", "bool">>>>

FeatureNames == {REQUIRED_FEATURES[i][1] : i \in DOMAIN REQUIRED_FEATURES}

ExpectedType(name) ==
  REQUIRED_FEATURES[CHOOSE i \in DOMAIN REQUIRED_FEATURES :
                      REQUIRED_FEATURES[i][1] = name][2]

ValueOfType(t) ==
  CASE t = "float" -> FloatV(<<1, 2>>)
    [] t = "int" -> IntV(1)
    [] t = "bool" -> BoolV(TRUE)
    [] OTHER -> StrV(<<"x">>)

\* what a drawn sample may hold in place of a value of the expected type
OtherTypes(t) ==
  CASE t = "float" -> {"int", "bool", "str"}
    [] t = "int" -> {"float", "bool"}
    [] OTHER -> {"int"}

RECURSIVE SubsetsUpTo(_, _)
SubsetsUpTo(S, k) ==
  IF k = 0 THEN {{}}
  ELSE LET P == SubsetsUpTo(S, k - 1)
       IN  P \cup {p \cup {x} : p \in P, x \in S}

\* a sample: every feature with a value of its type, except the features of
\* dev, which are absent or hold another type; extra adds an unknown key
SampleWith(dev, extra) ==
  [f \in (FeatureNames \ {g \in DOMAIN dev : dev[g] = "absent"})
           \cup (IF extra THEN {"extra_feature"} ELSE {}) |->
     IF f \in DOMAIN dev THEN ValueOfType(dev[f])
     ELSE IF f = "extra_feature" THEN StrV(<<"x">>)
     ELSE ValueOfType(ExpectedType(f))]

\* the ways the features of D may deviate
Deviations(D) ==
  {c \in [D -> {"absent", "float", "int", "bool", "str"}] :
     \A f \in D : c[f] \in OtherTypes(ExpectedType(f)) \cup {"absent"}}

\* bug: a bool passes as an int
TypeMatches_Mut(v, expected_type) ==
  CASE expected_type = "float" -> IsNumeric(v)
    [] expected_type = "int" -> IsInstance(v, "int")
    [] OTHER -> IsInstance(v, "bool")

\* the assertion of the loop body for one feature
TypeMatches(v, expected_type) ==
  CASE expected_type = "float" -> IsNumeric(v)
    [] expected_type = "int" -> IsInstance(v, "int") /\ ~IsInstance(v, "bool")
    [] OTHER -> IsInstance(v, "bool")

\* the position in REQUIRED_FEATURES at which the loop's assertion fails,
\* Len + 1 when the loop runs to its end
RECURSIVE FirstMismatch(_, _)
FirstMismatch(smp, i) ==
  IF i > Len(REQUIRED_FEATURES) THEN i
  ELSE IF TypeMatches(smp[REQUIRED_FEATURES[i][1]], REQUIRED_FEATURES[i][2])
       THEN FirstMismatch(smp, i + 1)
       ELSE i

InCheckMissing ==
  /\ pc = "start" /\ func = "validate_input_schema"
  /\ missing_fields' = FeatureNames \ DOMAIN sample
  /\ IF missing_fields' = {}
     THEN pc' = "types" /\ err' = err
     ELSE pc' = "done" /\ err' = "Missing required features"
  /\ UNCHANGED <<inputVars, otherVars, feature_name, signal_pos>>

InCheckTypes ==
  /\ pc = "types" /\ func = "validate_input_schema"
  /\ LET i == FirstMismatch(sample, 1) IN
       IF i > Len(REQUIRED_FEATURES)
       THEN err' = err /\ feature_name' = feature_name
       ELSE err' = "expected type" /\ feature_name' = REQUIRED_FEATURES[i][1]
  /\ pc' = "done"
  /\ UNCHANGED <<inputVars, otherVars, missing_fields, signal_pos>>

\* ------------------------------------------------------------------- Init
NoReport == [mean_delay_days |-> NoResult, max_delay_days |-> 0,
             min_delay_days |-> 0, detection_rate |-> NoResult]

InitLocals ==
  /\ pc = "start" /\ err = "none" /\ counted = FALSE
  /\ tp = 0 /\ fp = 0 /\ fn = 0 /\ prec = NoResult /\ rec = NoResult
  /\ pos_scores = <<>> /\ neg_scores = <<>>
  /\ concordant = 0 /\ discordant = 0
  /\ true_dates_parsed = <<>> /\ detected_dates_parsed = <<>>
  /\ delays = <<>> /\ detected_count = 0 /\ idx = 1
  /\ result = NoResult /\ report = NoReport
  /\ missing_fields = {} /\ feature_name = "" /\ signal_pos = 1

InitClassification ==
  /\ func \in {"precision", "recall", "f1_score"}
  /\ y_true \in SeqsUpTo(Labels, MaxLen)
  /\ y_pred \in SeqsUpTo(Labels, MaxLen)
  /\ y_scores = <<>> /\ sklearn_env = "ImportError"
  /\ true_event_dates = <<>> /\ detected_dates = <<>>
  /\ sample = <<>> /\ result_dict = <<>>

InitAuc ==
  /\ func = "roc_auc"
  /\ y_true \in SeqsUpTo(Labels, MaxLen)
  /\ y_scores \in SeqsUpTo(Scores, MaxLen)
  /\ sklearn_env \in SklearnEnvs
  /\ y_pred = <<>>
  /\ true_event_dates = <<>> /\ detected_dates = <<>>
  /\ sample = <<>> /\ result_dict = <<>>

InitDelay ==
  /\ func = "detection_delay"
  /\ true_event_dates \in SeqsUpTo(DateInputs, MaxEvents)
  /\ detected_dates \in SeqsUpTo(DateInputs, MaxDetections)
  /\ y_true = <<>> /\ y_pred = <<>> /\ y_scores = <<>>
  /\ sklearn_env = "ImportError"
  /\ sample = <<>> /\ result_dict = <<>>

InitOutput ==
  /\ func = "validate_output_schema"
  /\ result_dict \in OutputDicts
  /\ sample = <<>>
  /\ y_true = <<>> /\ y_pred = <<>> /\ y_scores = <<>>
  /\ sklearn_env = "ImportError"
  /\ true_event_dates = <<>> /\ detected_dates = <<>>

InitInput ==
  /\ func = "validate_input_schema"
  /\ \E D \in SubsetsUpTo(FeatureNames, MaxDeviations) :
       \E dev \in Deviations(D), extra \in BOOLEAN :
         sample = SampleWith(dev, extra)
  /\ result_dict = <<>>
  /\ y_true = <<>> /\ y_pred = <<>> /\ y_scores = <<>>
  /\ sklearn_env = "ImportError"
  /\ true_event_dates = <<>> /\ detected_dates = <<>>

Init ==
  InitLocals /\ (InitClassification \/ InitAuc \/ InitDelay \/ InitOutput
                  \/ InitInput)

Next ==
  \/ AssertLength
  \/ PrecisionCount
  \/ PrecisionReturn
  \/ RecallCount
  \/ RecallReturn
  \/ F1CallPrecision
  \/ F1CallRecall
  \/ F1Return
  \/ AucAssertLength
  \/ AucAssertScores
  \/ AucLibrary
  \/ AucPartition
  \/ AucDegenerate
  \/ AucCountPairs
  \/ AucReturn
  \/ ParseTrueDates
  \/ ParseDetectedDates
  \/ CheckNoEvents
  \/ LoopBody
  \/ LoopExit
  \/ ReturnReport
  \/ OutCheckMissing
  \/ OutCheckRiskScore
  \/ OutCheckRiskLevel
  \/ OutCheckEvaluationDate
  \/ OutCheckSignalTypes
  \/ OutCheckSignal
  \/ OutPassed
  \/ InCheckMissing
  \/ InCheckTypes

Spec == Init /\ [][Next]_vars

\* ================================================================ claims
Done(f) == pc = "done" /\ func = f

Returned(f) == Done(f) /\ err = "none"

\* counts as the claims state them: numbers of indices
TP == Cardinality({i \in DOMAIN y_true \cap DOMAIN y_pred :
                     y_true[i] = 1 /\ y_pred[i] = 1})
FP == Cardinality({i \in DOMAIN y_true \cap DOMAIN y_pred :
                     y_true[i] = 0 /\ y_pred[i] = 1})
FN == Cardinality({i \in DOMAIN y_true \cap DOMAIN y_pred :
                     y_true[i] = 1 /\ y_pred[i] = 0})

\* C1: on equal-length inputs precision returns TP/(TP+FP), and exactly 0.0
\* (no failure) when TP+FP = 0.
C1_PrecisionIsTPOverTPFP ==
  (Done("precision") /\ Len(y_true) = Len(y_pred)) =>
    /\ err = "none"
    /\ IF TP + FP = 0 THEN result = <<0, 1>>
       ELSE RatEq(result, <<TP, TP + FP>>)

C1_Witness ==
  /\ Returned("precision") /\ TP = 1 /\ FP = 2 /\ RatEq(result, <<1, 3>>)

\* C2: on equal-length inputs recall returns TP/(TP+FN), and exactly 0.0
\* (no failure) when TP+FN = 0.
C2_RecallIsTPOverTPFN ==
  (Done("recall") /\ Len(y_true) = Len(y_pred)) =>
    /\ err = "none"
    /\ IF TP + FN = 0 THEN result = <<0, 1>>
       ELSE RatEq(result, <<TP, TP + FN>>)

C2_Witness ==
  /\ Returned("recall") /\ TP = 2 /\ FN = 1 /\ RatEq(result, <<2, 3>>)

\* C3: f1_score returns 2pr/(p+r) for the p and r that precision and recall
\* return on the same inputs, and 0.0 when p+r = 0 (so when both are 0.0).
C3_F1IsHarmonicMean ==
  (Done("f1_score") /\ Len(y_true) = Len(y_pred)) =>
    /\ err = "none"
    /\ IF TP + FP = 0 THEN prec = <<0, 1>> ELSE RatEq(prec, <<TP, TP + FP>>)
    /\ IF TP + FN = 0 THEN rec = <<0, 1>> ELSE RatEq(rec, <<TP, TP + FN>>)
    /\ IF prec[1] = 0 /\ rec[1] = 0
       THEN result = <<0, 1>>
       \* result * (p + r) = 2 * p * r, multiplied out
       ELSE /\ result[2] # 0
            /\ result[1] * (prec[1] * rec[2] + rec[1] * prec[2])
                 = 2 * prec[1] * rec[1] * result[2]

C3_Witness ==
  /\ Returned("f1_score") /\ RatEq(prec, <<1, 1>>) /\ RatEq(rec, <<2, 3>>)
  /\ RatEq(result, <<4, 5>>)

\* counts as the roc_auc claims state them: (positive, negative) index pairs
PosIdx == {i \in DOMAIN y_true \cap DOMAIN y_scores : y_true[i] = 1}
NegIdx == {i \in DOMAIN y_true \cap DOMAIN y_scores : y_true[i] = 0}
ConcordantPairs ==
  Cardinality({q \in PosIdx \X NegIdx : y_scores[q[1]] > y_scores[q[2]]})
TiedPairs ==
  Cardinality({q \in PosIdx \X NegIdx : y_scores[q[1]] = y_scores[q[2]]})

AucPrecondition ==
  /\ Len(y_true) = Len(y_scores)
  /\ PosIdx # {} /\ NegIdx # {}
  /\ \A i \in DOMAIN y_scores : 0 <= y_scores[i] /\ y_scores[i] <= ScoreDen

\* C4: with both classes present and scores in [0,1], roc_auc returns
\* (concordant + 0.5*ties)/(P*N).
C4_AucCountsTiesAsHalf ==
  (Done("roc_auc") /\ AucPrecondition) =>
    /\ err = "none"
    /\ RatEq(result, <<2 * ConcordantPairs + TiedPairs,
                       2 * Cardinality(PosIdx) * Cardinality(NegIdx)>>)

\* C5: roc_auc returns exactly 0.5, without failing, when labels has no
\* positive or no negative entry (the empty input included).
C5_AucDegenerateIsHalf ==
  (Done("roc_auc") /\ Len(y_true) = Len(y_scores)
     /\ (\A i \in DOMAIN y_scores : 0 <= y_scores[i] /\ y_scores[i] <= ScoreDen)
     /\ (PosIdx = {} \/ NegIdx = {})) =>
    /\ err = "none"
    /\ result = <<1, 2>>

\* C6: precision, recall, f1_score and roc_auc fail with the length-mismatch
\* error when their two sequences differ in length, before any counting or
\* score comparison, and no result is produced.
SecondArgument == IF func = "roc_auc" THEN y_scores ELSE y_pred

C6_LengthMismatchFailsFirst ==
  (func \in {"precision", "recall", "f1_score", "roc_auc"}
     /\ Len(y_true) # Len(SecondArgument)) =>
    /\ ~counted
    /\ result = <<>> /\ prec = <<>> /\ rec = <<>>
    /\ pos_scores = <<>> /\ neg_scores = <<>>
    /\ pc \in {"start", "done"}
    /\ pc = "done" => err = "LengthMismatch"

C6_Witness ==
  /\ Done("roc_auc") /\ Len(y_true) = 2 /\ Len(y_scores) = 3
  /\ err = "LengthMismatch" /\ ~counted /\ result = <<>>

\* the zero report, written out
AllZeroReport == [mean_delay_days |-> <<0, 1>>, max_delay_days |-> 0,
                  min_delay_days |-> 0, detection_rate |-> <<0, 1>>]

\* a str of the argument that datetime.fromisoformat rejects
Malformed(dates) ==
  \E i \in DOMAIN dates : dates[i].kind = "str" /\ ~WellFormed(dates[i].text)

\* C7 (as stated): with empty event_dates detection_delay returns the zero
\* report whatever detection_dates holds, and never fails.
C7_EmptyEventsAlwaysZeroReport ==
  (Done("detection_delay") /\ true_event_dates = <<>>) =>
    /\ err = "none"
    /\ report = AllZeroReport

\* C7 (amended): with empty event_dates detection_delay returns the zero
\* report when every detection string parses; detection_dates is parsed
\* before the emptiness test, so a malformed one fails the call.
C7_EmptyEventsZeroReportIfParsed ==
  (Done("detection_delay") /\ true_event_dates = <<>>) =>
    IF Malformed(detected_dates)
    THEN err = "ValueError" /\ report = NoReport
    ELSE err = "none" /\ report = AllZeroReport

C7_Witness ==
  /\ Done("detection_delay") /\ true_event_dates = <<>>
  /\ Len(detected_dates) = 2 /\ ~Malformed(detected_dates)
  /\ \E i \in DOMAIN detected_dates : detected_dates[i].kind = "str"
  /\ report = AllZeroReport

\* signed seconds from event k to detection j
Diff(j, k) == total_seconds(detected_dates_parsed[j], true_dates_parsed[k])

\* the match of event k as the claim states it: smallest absolute
\* difference, earliest in the detection sequence on a tie
MatchOf(k) ==
  CHOOSE j \in DOMAIN detected_dates_parsed :
    /\ \A j2 \in DOMAIN detected_dates_parsed :
         abs(Diff(j, k)) <= abs(Diff(j2, k))
    /\ \A j2 \in 1..(j - 1) : abs(Diff(j2, k)) > abs(Diff(j, k))

\* C8: every event is matched against the whole detection sequence; its
\* delay is floor((match - event) / 1 day) for the nearest detection,
\* the earliest one on a tie, negative when the detection comes first.
C8_NearestDetectionFloorDays ==
  (func = "detection_delay" /\ detected_dates_parsed # <<>>) =>
    /\ Len(delays) <= Len(true_dates_parsed)
    /\ (pc = "summary" \/ (pc = "done" /\ err = "none" /\ true_dates_parsed # <<>>))
         => Len(delays) = Len(true_dates_parsed)
    /\ \A k \in DOMAIN delays :
         /\ delays[k] * 86400 <= Diff(MatchOf(k), k)
         /\ Diff(MatchOf(k), k) < (delays[k] + 1) * 86400
         /\ Diff(MatchOf(k), k) < 0 => delays[k] < 0

C8_Witness ==
  /\ Returned("detection_delay") /\ Len(delays) = 2
  /\ MatchOf(1) = MatchOf(2)
  /\ \E k \in DOMAIN delays :
       /\ \E j \in DOMAIN detected_dates_parsed :
            j > MatchOf(k) /\ abs(Diff(j, k)) = abs(Diff(MatchOf(k), k))
       /\ Diff(MatchOf(k), k) % 86400 # 0
       /\ delays[k] = 0 - 2

\* C9: the returned detection_rate lies in [0,1], and for non-empty
\* event_dates it is (events with a computed delay) / (events).
C9_DetectionRateIsMatchedFraction ==
  Returned("detection_delay") =>
    /\ RatLe(<<0, 1>>, report.detection_rate)
    /\ RatLe(report.detection_rate, <<1, 1>>)
    /\ true_event_dates # <<>> =>
         RatEq(report.detection_rate, <<Len(delays), Len(true_event_dates)>>)

C9_Witness ==
  /\ Returned("detection_delay")
  /\ Len(true_event_dates) = 1 /\ Len(detected_dates) = 2
  /\ Len(delays) = 1 /\ RatEq(report.detection_rate, <<1, 1>>)

\* C10: with non-empty event_dates and empty detection_dates no delay is
\* computed and the all-zero report is returned.
C10_NoDetectionsZeroReport ==
  (Done("detection_delay") /\ true_event_dates # <<>>
     /\ ~Malformed(true_event_dates) /\ detected_dates = <<>>) =>
    /\ err = "none"
    /\ delays = <<>>
    /\ report = AllZeroReport

C10_Witness ==
  /\ Returned("detection_delay") /\ Len(true_event_dates) = 2
  /\ detected_dates = <<>> /\ delays = <<>> /\ report = AllZeroReport


\* the sum of the first k delays, taken by position
RECURSIVE DelaySum(_)
DelaySum(k) == IF k = 0 THEN 0 ELSE DelaySum(k - 1) + delays[k]

ScoreValues == {y_scores[i] : i \in DOMAIN y_scores}

Increasing ==
  {g \in [ScoreValues -> Scores] :
     \A a, b \in ScoreValues : a < b => g[a] < g[b]}

Doubling == [a \in ScoreValues |-> 2 * a]

Transformed(g) == [i \in DOMAIN y_scores |-> g[y_scores[i]]]

StaysInRange(g) == \A a \in ScoreValues : 0 <= g[a] /\ g[a] <= ScoreDen

SameResult(a, b) == a = b \/ RatEq(a, b)

\* C12 (as stated): for every strictly monotonic map g of the scores, scaling
\* by a positive constant included, roc_auc(labels, g(scores)) returns what
\* roc_auc(labels, scores) returned.
C12_AucInvariantUnderAnyMonotonicMap ==
  Returned("roc_auc") =>
    \A g \in Increasing \cup {Doubling} :
      \E o \in roc_auc(y_true, Transformed(g), sklearn_env) :
        o[1] = "none" /\ SameResult(o[2], result)

\* C12 (amended): when roc_auc returns a number, it returns the same number
\* for every strictly increasing map of the scores that keeps them in [0,1];
\* a map that moves a score out of [0,1] makes the call fail on the score
\* assertion.
C12_AucInvariantInsideUnitInterval ==
  /\ Done("roc_auc") => <<err, result>> \in roc_auc(y_true, y_scores, sklearn_env)
  /\ (Returned("roc_auc") /\ result # NaN) =>
       \A g \in Increasing :
         \A o \in roc_auc(y_true, Transformed(g), sklearn_env) :
           IF StaysInRange(g)
           THEN o[1] = "none" /\ RatEq(o[2], result)
           ELSE o = <<"ScoreDomain", <<>>>>

C12_Witness ==
  /\ Returned("roc_auc") /\ RatEq(result, <<1, 2>>)
  /\ Len(y_true) = 3 /\ PosIdx # {} /\ NegIdx # {}
  /\ \E g \in Increasing :
       /\ StaysInRange(g) /\ Transformed(g) # y_scores
       /\ \E a \in ScoreValues : g[a] # a + (g[y_scores[1]] - y_scores[1])


InUnitInterval(r) == RatLe(<<0, 1>>, r) /\ RatLe(r, <<1, 1>>)

\* C13: on equal-length inputs precision, recall and f1_score each return a
\* value in [0,1].
C13_ClassificationMetricsInUnitInterval ==
  (pc = "done" /\ func \in {"precision", "recall", "f1_score"}
     /\ Len(y_true) = Len(y_pred)) =>
    /\ err = "none"
    /\ InUnitInterval(result)
    /\ func = "f1_score" => InUnitInterval(prec) /\ InUnitInterval(rec)

C13_Witness ==
  /\ Returned("f1_score") /\ Len(y_true) = 3
  /\ ~RatEq(result, <<0, 1>>) /\ ~RatEq(result, <<1, 1>>)
  /\ InUnitInterval(result)


ScoreOutside == \E i \in DOMAIN y_scores : y_scores[i] < 0 \/ y_scores[i] > ScoreDen

\* C14 (as stated): roc_auc fails with the value-domain error whenever a
\* score lies outside [0,1], whatever the labels are.
C14_OutsideScoreIsDomainError ==
  (Done("roc_auc") /\ ScoreOutside) =>
    err = "ScoreDomain" /\ result = <<>>

\* C14 (amended): for labels and scores of equal length, roc_auc fails with
\* the value-domain error whenever a score lies outside [0,1]: nothing is
\* clamped, compared or returned.  When the lengths differ the
\* length-mismatch error is raised first.
C14_OutsideScoreFailsAfterLengthCheck ==
  (func = "roc_auc" /\ ScoreOutside) =>
    /\ ~counted /\ result = <<>>
    /\ pos_scores = <<>> /\ neg_scores = <<>>
    /\ pc \in {"start", "scores", "done"}
    /\ pc = "done" =>
         err = IF Len(y_true) = Len(y_scores) THEN "ScoreDomain"
               ELSE "LengthMismatch"

C14_Witness ==
  /\ Done("roc_auc") /\ sklearn_env = "installed"
  /\ Len(y_true) = 2 /\ Len(y_scores) = 2
  /\ y_scores[1] < 0 /\ y_scores[2] = ScoreDen
  /\ err = "ScoreDomain" /\ result = <<>>


PerfectMatch ==
  /\ y_pred = y_true
  /\ \E i \in DOMAIN y_true : y_true[i] = 1
  /\ \E i \in DOMAIN y_true : y_true[i] = 0

\* C15: when the predictions equal the labels and the labels hold a 1 and a
\* 0, precision, recall and f1_score all return 1.0.
C15_PerfectMatchIsOne ==
  (pc = "done" /\ func \in {"precision", "recall", "f1_score"}
     /\ PerfectMatch) =>
    /\ err = "none"
    /\ RatEq(result, <<1, 1>>)
    /\ func = "f1_score" => RatEq(prec, <<1, 1>>) /\ RatEq(rec, <<1, 1>>)

C15_Witness ==
  /\ Returned("f1_score") /\ PerfectMatch /\ Len(y_true) = 3
  /\ RatEq(prec, <<1, 1>>) /\ RatEq(rec, <<1, 1>>) /\ RatEq(result, <<1, 1>>)


\* C18: when event_dates and detection_dates are both non-empty, a call that
\* returns has computed one delay per event, in event order, however far the
\* nearest detection is, and its detection_rate is 1.0; detection_rate is
\* only ever 0.0 or 1.0.
C18_EveryEventGetsADelay ==
  Returned("detection_delay") =>
    /\ (true_event_dates # <<>> /\ detected_dates # <<>>) =>
         /\ Len(delays) = Len(true_event_dates)
         /\ \A k \in DOMAIN true_event_dates :
              /\ delays[k] * 86400 <= Diff(MatchOf(k), k)
              /\ Diff(MatchOf(k), k) < (delays[k] + 1) * 86400
         /\ report.detection_rate[1] = report.detection_rate[2]
         /\ report.detection_rate[2] # 0
    /\ \/ report.detection_rate = <<0, 1>>
       \/ RatEq(report.detection_rate, <<1, 1>>)

C18_Witness ==
  /\ Returned("detection_delay")
  /\ Len(true_event_dates) = 2 /\ detected_dates # <<>>
  /\ \E k \in DOMAIN delays : abs(Diff(MatchOf(k), k)) >= 3 * 86400
  /\ delays[1] # delays[2]
  /\ RatEq(report.detection_rate, <<1, 1>>)


\* the constraints of validate_output_schema as the claim states them
HasAllFields == required_fields \subseteq DOMAIN result_dict

ScoreConstraint ==
  LET v == result_dict["risk_score"]
  IN  /\ v.type \in {"int", "float"}
      /\ v.num[2] > 0 /\ 0 <= v.num[1] /\ v.num[1] <= v.num[2]

FixedLevels == {<<"l", "o", "w">>, <<"m", "e", "d", "i", "u", "m">>, <<"h", "i", "g", "h">>}

LevelConstraintExact ==
  LET v == result_dict["risk_level"]
  IN  v.type = "str" /\ v.text \in FixedLevels

SameLetters(a, b) ==
  /\ Len(a) = Len(b)
  /\ \A i \in DOMAIN a : LowerChar(a[i]) = LowerChar(b[i])

LevelConstraintAnyCase ==
  LET v == result_dict["risk_level"]
  IN  v.type = "str" /\ \E l \in FixedLevels : SameLetters(v.text, l)

DateConstraint ==
  LET v == result_dict["evaluation_date"]
  IN  v.type = "str" /\ WellFormed(v.text)

SignalsConstraint ==
  LET v == result_dict["contributing_signal_types"]
  IN  /\ v.type = "list" /\ v.items # <<>>
      /\ \A i \in DOMAIN v.items :
           v.items[i].type = "str" /\ v.items[i].text # <<>>

\* the first violated constraint in the order of the claim, "" for none
FirstViolated(levelOk) ==
  IF ~HasAllFields THEN "missing"
  ELSE IF ~ScoreConstraint THEN "risk_score"
  ELSE IF ~levelOk THEN "risk_level"
  ELSE IF ~DateConstraint THEN "evaluation_date"
  ELSE IF ~SignalsConstraint THEN "contributing_signal_types"
  ELSE ""

\* the constraint an assertion message of validate_output_schema is about
FailedOn ==
  CASE err = "none" -> ""
    [] err = "Missing required fields" -> "missing"
    [] err \in {"risk_score must be numeric", "risk_score must be in [0, 1]"}
         -> "risk_score"
    [] err \in {"risk_level must be a string", "risk_level must be one of"}
         -> "risk_level"
    [] err \in {"evaluation_date must be a string",
                "evaluation_date must be valid ISO 8601"} -> "evaluation_date"
    [] err \in {"contributing_signal_types must be a list",
                "contributing_signal_types must contain",
                "signal type must be a string",
                "signal types must be non-empty"} -> "contributing_signal_types"
    [] OTHER -> "other"

\* C16 (as stated): validate_output_schema accepts exactly the dicts with
\* all four fields, a non-boolean number in [0,1], a level that is one of
\* low, medium, high, a parseable date string and a non-empty list of
\* non-empty strings, and otherwise fails on the first violated constraint.
C16_AcceptsExactlyTheListedLevels ==
  Done("validate_output_schema") =>
    FailedOn = FirstViolated(HasAllFields /\ LevelConstraintExact)

\* C16 (amended): the same, with the level compared after lower-casing, so
\* that a level such as HIGH is accepted.
C16_AcceptsLevelsInAnyCase ==
  Done("validate_output_schema") =>
    /\ FailedOn = FirstViolated(HasAllFields /\ LevelConstraintAnyCase)
    /\ err = "Missing required fields" =>
         missing_fields = required_fields \ DOMAIN result_dict

C16_Witness ==
  /\ Returned("validate_output_schema")
  /\ result_dict["risk_level"].text = <<"H", "I", "G", "H">>
  /\ result_dict["risk_score"].type = "int"
  /\ Len(result_dict["contributing_signal_types"].items) = 2


\* ------------------------------------------------------------------ C17
\* a value of the expected primitive type, read off the value's own type
HasExpectedType(f) ==
  LET t == sample[f].type
      want == ExpectedType(f)
  IN  \/ want = "float" /\ t \in {"int", "float"}
      \/ want = "int" /\ t = "int"
      \/ want = "bool" /\ t = "bool"

MissingFeatures == {f \in FeatureNames : f \notin DOMAIN sample}

Mismatches == {f \in FeatureNames \cap DOMAIN sample : ~HasExpectedType(f)}

PositionOf(f) ==
  CHOOSE i \in DOMAIN REQUIRED_FEATURES : REQUIRED_FEATURES[i][1] = f

\* the features the raised error names
NamedByError ==
  CASE err = "Missing required features" -> missing_fields
    [] err = "expected type" -> {feature_name}
    [] OTHER -> {}

AcceptsExactlyValidSamples ==
  /\ err = "none" <=> (MissingFeatures = {} /\ Mismatches = {})
  /\ MissingFeatures # {} =>
       err = "Missing required features" /\ NamedByError = MissingFeatures
  /\ (MissingFeatures = {} /\ Mismatches # {}) => err = "expected type"

\* C17 as stated: validate_input_schema accepts a sample exactly when every
\* required feature is present with its expected primitive type, extra keys
\* allowed; otherwise the error names all the missing features, or, when none
\* is missing, all the features whose type mismatches.
C17_ErrorEnumeratesAllMismatches ==
  Done("validate_input_schema") =>
    /\ AcceptsExactlyValidSamples
    /\ err = "expected type" => NamedByError = Mismatches

\* C17 amended: validate_input_schema accepts a sample exactly when every
\* required feature is present with its expected primitive type (float: a
\* non-boolean int or float; int: a non-boolean int; bool: a boolean), extra
\* keys allowed; a sample with missing features fails, before any type is
\* looked at, with an error naming all the missing features; otherwise the
\* error names only the first feature, in REQUIRED_FEATURES order, whose type
\* mismatches.
C17_ErrorNamesFirstMismatch ==
  Done("validate_input_schema") =>
    /\ AcceptsExactlyValidSamples
    /\ err = "expected type" =>
         /\ feature_name \in Mismatches
         /\ \A f \in Mismatches : PositionOf(feature_name) <= PositionOf(f)

\* a sample with an unknown key and two mismatching features, of which the
\* error names one
C17_Witness ==
  /\ Done("validate_input_schema")
  /\ err = "expected type"
  /\ Cardinality(Mismatches) = 2
  /\ feature_name \in Mismatches
  /\ "extra_feature" \in DOMAIN sample

====
